---- MODULE Spec2Model ----
(***************************************************************************)
(* Model of data_blocks' StructuredData (src/src/data/structured_data.rs): *)
(* a stored record `sd`, a candidate successor `other`, and the operations *)
(* new, add_signature, replace_signatures, verify_previous_owner_signatures*)
(* validate_self_against_successor and replace_with_other.                 *)
(***************************************************************************)
EXTENDS Integers, Sequences, FiniteSets, TLC

VARIABLES sd, other, last, codecFaulty, held, pending

vars == <<sd, other, last, codecFaulty, held, pending>>

\* ------------------------------------------------------------------ bounds
\* number of key pairs in play (key k: secret key k signs, public key k verifies)
NumKeys == 4
\* cap on the stored record's previous_owner_signatures grown by add_signature
MaxSigs == 3
\* the same cap for a candidate successor
MaxCandidateSigs == 2
\* largest version given to new
MaxVersion == 3
\* parameters in which a candidate may differ from the stored record's
\* plain successor (same identity, data, owners and flag, version + 1)
MaxChanges == 2
\* callers that submit candidates to one shared stored record
NumCallers == 2
\* signature values one secret key can produce over one payload
\* (0 is the output of sign_detached; the others are further valid encodings)
NumVariants == 2

\* ------------------------------------------------------ program constants
\* maximum allowed size for a Structured Data to grow to
MAX_BYTES == 102400

\* ------------------------------------------------------------ input sets
Keys == 1..NumKeys
Variants == 0..(NumVariants - 1)
TypeTags == {0, 12}
Names == {101, 102}
Datas == {<<>>, <<7>>}
Versions == 0..MaxVersion

\* <<1, ..., n>>
Prefix(n) == [i \in 1..n |-> i]

\* owner-key lists given to new: no owner, one owner, 2, 3, ... owners,
\* the same owners in another order, and a new single owner
KeyLists ==
    {Prefix(n) : n \in 0..NumKeys} \cup {<<NumKeys>>, <<2, 1>>, <<2, 1, 3>>}

\* ------------------------------------------------------- pure functions
\* A u64 x is held as the integer x when x < 2^63 and as x - 2^64 otherwise:
\* 2^64 - 1 is -1, 2^64 - 2 is -2, and + 1 on these integers is the u64
\* addition that wraps around.
U64_MAX == 0 - 1

\* the order of the u64 values two such integers stand for
u64_lt(a, b) == IF (a < 0) = (b < 0) THEN a < b ELSE a >= 0

\* the decimal digits of 2^64
TwoTo64 == <<1, 8, 4, 4, 6, 7, 4, 4, 0, 7, 3, 7, 0, 9, 5, 5, 1, 6, 1, 6>>

\* the decimal digits of a natural number, and of digits - k for k >= 0
RECURSIVE decimal(_)
decimal(n) ==
    IF n < 10 THEN <<n>> ELSE decimal(n \div 10) \o <<n % 10>>

RECURSIVE decimal_minus(_, _)
decimal_minus(digits, k) ==
    IF k = 0 THEN digits
    ELSE LET n == Len(digits)
             x == digits[n] - (k % 10)
         IN  IF x >= 0
             THEN decimal_minus(SubSeq(digits, 1, n - 1), k \div 10) \o <<x>>
             ELSE decimal_minus(SubSeq(digits, 1, n - 1), (k \div 10) + 1) \o <<x + 10>>

\* u64::to_string().as_bytes(): the decimal digits as ASCII bytes
to_string(n) ==
    LET digits == IF n >= 0 THEN decimal(n) ELSE decimal_minus(TwoTo64, 0 - n)
    IN  [i \in 1..Len(digits) |-> 48 + digits[i]]

\* an encoding of a sequence without its length
emit_seq_unframed(s) == s

\* the codec's encoding of a sequence: its length, then its elements
emit_seq(s) == <<Len(s)>> \o s

\* the field-by-field encoding of SerialisableStructuredData
SerialisableStructuredData(r) ==
    emit_seq(to_string(r.type_tag))
    \o <<r.name>>
    \o emit_seq(r.data)
    \o emit_seq(r.previous_owner_keys)
    \o emit_seq(r.current_owner_keys)
    \o emit_seq(to_string(r.version))

\* data_to_sign: Ok(payload), or the codec's error
data_to_sign(r, codecOk) ==
    IF codecOk THEN [res |-> "Ok", data |-> SerialisableStructuredData(r)]
    ELSE [res |-> "Serialisation", data |-> <<>>]

\* sign::sign_detached and sign::verify_detached
sign_detached(data, secret_key) ==
    [signer |-> secret_key, msg |-> data, variant |-> 0]

verify_detached(sig, data, pub_key) ==
    sig.signer = pub_key /\ sig.msg = data

\* ------------------------------------------------------------ operations
Ok == "Ok"
Panic == "Panic"
ErrSignature == "Signature"
ErrValidation == "Validation"
ErrSerialisation == "Serialisation"

\* a duplicate scan that compares each signature with its neighbour only
has_duplicate_adjacent(sigs) ==
    \E i \in 2..Len(sigs) : sigs[i] = sigs[i - 1]

\* the duplicate scan of verify_previous_owner_signatures
has_duplicate(sigs) ==
    \E i \in 1..Len(sigs) : \E j \in 1..(i - 1) : sigs[i] = sigs[j]

\* the closure check_all_keys
check_all_keys(sig, data, owner_keys) ==
    \E n \in 1..Len(owner_keys) : verify_detached(sig, data, owner_keys[n])

\* a count of the owner keys that have a valid signature in the list
count_valid_signers(sigs, data, owner_keys) ==
    Cardinality({n \in 1..Len(owner_keys) :
        \E i \in 1..Len(sigs) : verify_detached(sigs[i], data, owner_keys[n])})

\* .iter().filter(check_all_keys).count()
count_valid(sigs, data, owner_keys) ==
    Cardinality({i \in 1..Len(sigs) : check_all_keys(sigs[i], data, owner_keys)})

\* a threshold of more than half of the owners
required_valid_majority(owner_keys) == (Len(owner_keys) \div 2) + 1

\* the number of valid signatures the last test of the quorum check asks for
required_valid(owner_keys) ==
    (Len(owner_keys) \div 2) + (Len(owner_keys) % 2)

verify_previous_owner_signatures(r, owner_keys, codecOk) ==
    LET sigs == r.previous_owner_signatures
        enc == data_to_sign(r, codecOk)
    IN  IF has_duplicate(sigs) THEN ErrValidation
        ELSE IF Len(sigs) < ((Len(owner_keys) + 1) \div 2) THEN ErrValidation
        ELSE IF enc.res # Ok THEN enc.res
        ELSE IF count_valid(sigs, enc.data, owner_keys) < required_valid(owner_keys)
             THEN ErrValidation
        ELSE Ok

\* an authorizing quorum that is always previous_owner_keys
owner_keys_to_match_previous(r) == r.previous_owner_keys

\* an authorizing quorum that never looks at previous_owner_keys
owner_keys_to_match_current(r) == r.current_owner_keys

\* the authorizing quorum: previous_owner_keys unless empty, else current_owner_keys
owner_keys_to_match(r) ==
    IF r.previous_owner_keys = <<>> THEN r.current_owner_keys
    ELSE r.previous_owner_keys

\* a subtraction that does not clamp at zero
unclamped_sub(a, b) == a - b

\* usize::saturating_sub
saturating_sub(a, b) == IF a >= b THEN a - b ELSE 0

\* add_signature: [res, rec (the record afterwards), ret (signatures still required)]
add_signature(r, secret_key, codecOk) ==
    LET enc == data_to_sign(r, codecOk)
        sig == sign_detached(enc.data, secret_key)
        r2 == [r EXCEPT !.previous_owner_signatures = Append(@, sig)]
    IN  IF enc.res # Ok THEN [res |-> enc.res, rec |-> r, ret |-> 0]
        ELSE [res |-> Ok, rec |-> r2,
              ret |-> saturating_sub((Len(owner_keys_to_match(r2)) \div 2) + 1,
                                     Len(r2.previous_owner_signatures))]

\* a setter that keeps the earlier signatures in front of the new ones
replace_signatures_appending(r, new_signatures) ==
    [r EXCEPT !.previous_owner_signatures = @ \o new_signatures]

replace_signatures(r, new_signatures) ==
    [r EXCEPT !.previous_owner_signatures = new_signatures]

\* a constructor that ignores the signing key
new_never_signs(type_tag, name, version, data, current_owner_keys, previous_owner_keys, signing_key, ledger, codecOk) ==
    [res |-> Ok,
     rec |-> [type_tag |-> type_tag,
              name |-> name,
              data |-> data,
              previous_owner_keys |-> previous_owner_keys,
              version |-> version,
              current_owner_keys |-> current_owner_keys,
              previous_owner_signatures |-> <<>>,
              ledger |-> ledger]]

\* StructuredData::new: [res, rec]
new(type_tag, name, version, data, current_owner_keys, previous_owner_keys, signing_key, ledger, codecOk) ==
    LET structured_data ==
            [type_tag |-> type_tag,
             name |-> name,
             data |-> data,
             previous_owner_keys |-> previous_owner_keys,
             version |-> version,
             current_owner_keys |-> current_owner_keys,
             previous_owner_signatures |-> <<>>,
             ledger |-> ledger]
    IN  IF signing_key = 0 THEN [res |-> Ok, rec |-> structured_data]
        ELSE LET a == add_signature(structured_data, signing_key, codecOk)
             IN  [res |-> a.res, rec |-> a.rec]

\* structural tests that hold a transferred record to its previous owners
structural_mismatch_old_owners(self, o) ==
    \/ o.type_tag # self.type_tag
    \/ o.name # self.name
    \/ o.version # self.version + 1
    \/ owner_keys_to_match(o) # owner_keys_to_match(self)

\* structural tests that compare the owners as sets of keys
structural_mismatch_unordered(self, o) ==
    \/ o.type_tag # self.type_tag
    \/ o.name # self.name
    \/ o.version # self.version + 1
    \/ {owner_keys_to_match(o)[i] : i \in 1..Len(owner_keys_to_match(o))}
          # {self.current_owner_keys[i] : i \in 1..Len(self.current_owner_keys)}

\* structural tests that only ask for a larger version
structural_mismatch_any_increase(self, o) ==
    \/ o.type_tag # self.type_tag
    \/ o.name # self.name
    \/ o.version <= self.version
    \/ owner_keys_to_match(o) # self.current_owner_keys

\* self.version + 1 is evaluated, after the tests of type_tag and name, and
\* exceeds the u64 range
version_overflows(self, o) ==
    /\ o.type_tag = self.type_tag
    /\ o.name = self.name
    /\ self.version = U64_MAX

\* what the build makes of self.version + 1 then: a panic where overflow is
\* checked, the wrapped sum where it is not
OverflowOutcomes(self, o) ==
    IF version_overflows(self, o) THEN {"panic", "wrap"} ELSE {"none"}

\* the four structural tests of validate_self_against_successor
structural_mismatch(self, o) ==
    \/ o.type_tag # self.type_tag
    \/ o.name # self.name
    \/ o.version # self.version + 1
    \/ owner_keys_to_match(o) # self.current_owner_keys

\* a validation that runs the quorum check before the structural tests
validate_signatures_first(self, o, codecOk) ==
    LET v == verify_previous_owner_signatures(o, owner_keys_to_match(o), codecOk)
    IN  IF v # Ok THEN v
        ELSE IF structural_mismatch(self, o) THEN ErrSignature
        ELSE Ok

validate_self_against_successor(self, o, codecOk) ==
    IF structural_mismatch(self, o) THEN ErrSignature
    ELSE verify_previous_owner_signatures(o, owner_keys_to_match(o), codecOk)

\* field assignments that forget the signatures
overwrite_without_signatures(self, o) ==
    [self EXCEPT !.type_tag = o.type_tag,
                 !.name = o.name,
                 !.data = o.data,
                 !.previous_owner_keys = o.previous_owner_keys,
                 !.version = o.version,
                 !.current_owner_keys = o.current_owner_keys]

\* field assignments that take the whole candidate, ledger flag included
overwrite_with_ledger(self, o) == o

\* the field assignments of replace_with_other
overwrite(self, o) ==
    [self EXCEPT !.type_tag = o.type_tag,
                 !.name = o.name,
                 !.data = o.data,
                 !.previous_owner_keys = o.previous_owner_keys,
                 !.version = o.version,
                 !.current_owner_keys = o.current_owner_keys,
                 !.previous_owner_signatures = o.previous_owner_signatures]

\* a replace_with_other that assigns identity, data and version before it validates
replace_with_other_eager(self, o, codecOk) ==
    LET v == validate_self_against_successor(self, o, codecOk)
    IN  IF v # Ok
        THEN [res |-> v,
              rec |-> [self EXCEPT !.type_tag = o.type_tag, !.name = o.name,
                                   !.data = o.data, !.version = o.version]]
        ELSE [res |-> Ok, rec |-> overwrite(self, o)]

\* replace_with_other: [res, rec (self afterwards)]
replace_with_other(self, o, codecOk) ==
    LET v == validate_self_against_successor(self, o, codecOk)
    IN  IF v # Ok THEN [res |-> v, rec |-> self]
        ELSE [res |-> Ok, rec |-> overwrite(self, o)]

\* identifier(): DataIdentifier::Structured(name, type_tag)
identifier(r) == <<"Structured", r.name, r.type_tag>>

\* StructuredData::name()
StructuredData_name(r) == r.name

\* a payload size that counts the signatures too
payload_size_with_signatures(r) == Len(r.data) + Len(r.previous_owner_signatures)

\* StructuredData::payload_size(): self.data.len()
payload_size(r) == Len(r.data)

\* ImmutableData and PlainData: a name and a value; the name of an immutable
\* record is the hash of its value, a plain record is given its name
content_hash(value) == <<"hash", value>>

ImmutableData_new(value) == [name |-> content_hash(value), value |-> value]

ImmutableData_name(r) == r.name

ImmutableData_identifier(r) == <<"Immutable", r.name>>

ImmutableData_payload_size(r) == Len(r.value)

PlainData_new(plain_name, value) == [name |-> plain_name, value |-> value]

PlainData_name(r) == r.name

PlainData_identifier(r) == <<"Plain", r.name>>

PlainData_payload_size(r) == Len(r.value)

\* the Data enum: a record wrapped in its variant
Data_Structured(r) == [kind |-> "Structured", rec |-> r]

Data_Immutable(r) == [kind |-> "Immutable", rec |-> r]

Data_Plain(r) == [kind |-> "Plain", rec |-> r]

\* Data::name(), Data::identifier(), Data::payload_size()
Data_name(d) ==
    CASE d.kind = "Structured" -> StructuredData_name(d.rec)
      [] d.kind = "Immutable" -> ImmutableData_name(d.rec)
      [] d.kind = "Plain" -> PlainData_name(d.rec)

Data_identifier(d) ==
    CASE d.kind = "Structured" -> identifier(d.rec)
      [] d.kind = "Immutable" -> ImmutableData_identifier(d.rec)
      [] d.kind = "Plain" -> PlainData_identifier(d.rec)

Data_payload_size(d) ==
    CASE d.kind = "Structured" -> payload_size(d.rec)
      [] d.kind = "Immutable" -> ImmutableData_payload_size(d.rec)
      [] d.kind = "Plain" -> PlainData_payload_size(d.rec)

\* DataIdentifier::name(): the name of whichever kind
DataIdentifier_name(id) == id[2]

\* the codec's encoding of a u64: its eight bytes, most significant first
RECURSIVE be_bytes(_, _)
be_bytes(n, k) ==
    IF k = 0 THEN <<>> ELSE be_bytes(n \div 256, k - 1) \o <<n % 256>>

serialise_u64(tag) == be_bytes(tag, 8)

\* Keccak::new_sha3_256 over the bytes fed to it, taken to be injective
sha3_256(bytes) == <<"sha3_256", bytes>>

\* a local name that hashes the name alone
local_name_without_tag(id, codecOk) ==
    IF id[1] = "Structured"
    THEN IF codecOk THEN [res |-> Ok, key |-> sha3_256(<<id[2]>>)]
         ELSE [res |-> ErrSerialisation, key |-> <<>>]
    ELSE [res |-> Ok, key |-> id[2]]

\* DataIdentifier::local_name(): [res, key]
local_name(id, codecOk) ==
    IF id[1] = "Structured"
    THEN IF codecOk
         THEN [res |-> Ok, key |-> sha3_256(<<id[2]>> \o serialise_u64(id[3]))]
         ELSE [res |-> ErrSerialisation, key |-> <<>>]
    ELSE [res |-> Ok, key |-> id[2]]

\* --------------------------------------------------------- state machine
\* `sd` is the stored record, `other` the candidate successor the caller has
\* built; `last` records the most recent call: the operation, the record it
\* was called on, its result, the value it returned (for add_signature and the
\* accessors) and the keys
\* handed to it: the quorum of verify_previous_owner_signatures, the signing
\* key of new in the construction runs (none: the empty list).
\* codecFaulty says whether the external codec may fail in this run.
\* `held` is the Data value (a record wrapped in its variant) whose accessors
\* the addressing runs call; the other runs hold none.

\* `pending` holds, in the shared-record runs, the candidate each caller has
\* built and not yet submitted; the other runs have no such callers.

\* no Data value
NoData == [kind |-> "None"]

CodecOutcomes == IF codecFaulty THEN {TRUE, FALSE} ELSE {TRUE}

Call(op, on, res, ret, keys) ==
    [op |-> op, on |-> on, res |-> res, ret |-> ret, keys |-> keys]

Range(s) == {s[i] : i \in 1..Len(s)}

\* secret keys used to sign r beside record q: every key either record names
\* as an owner, and key NumKeys
Signers(r, q) ==
    Range(r.current_owner_keys) \cup Range(r.previous_owner_keys)
    \cup Range(q.current_owner_keys) \cup {NumKeys}

\* lists a caller hands to replace_signatures of record r beside record q:
\* none, the signatures of q, and (up to `cap` entries) r's own list followed
\* by its last signature once more or by another valid encoding of it
ReplaceInputs(r, q, cap) ==
    LET sigs == r.previous_owner_signatures
        n == Len(sigs)
    IN  {<<>>, q.previous_owner_signatures}
        \cup (IF n = 0 \/ n >= cap THEN {}
              ELSE {Append(sigs, [sigs[n] EXCEPT !.variant = v]) : v \in Variants})

\* owner-key lists given to new in the update-protocol runs
OwnerLists == {<<>>, <<NumKeys>>, Prefix(3), <<2, 1, 3>>}

ParamDomain ==
    [type_tag |-> TypeTags, name |-> Names, version |-> Versions,
     data |-> Datas, current_owner_keys |-> OwnerLists,
     previous_owner_keys |-> OwnerLists, ledger |-> BOOLEAN]

\* the parameters of the plain successor of record r
SuccessorParams(r) ==
    [type_tag |-> r.type_tag, name |-> r.name, version |-> r.version + 1,
     data |-> r.data, current_owner_keys |-> r.current_owner_keys,
     previous_owner_keys |-> <<>>, ledger |-> r.ledger]

ChangeOne(p) ==
    UNION {{[p EXCEPT ![f] = v] : v \in ParamDomain[f]} : f \in DOMAIN ParamDomain}

RECURSIVE ChangeUpTo(_, _)
ChangeUpTo(p, n) ==
    IF n = 0 THEN {p} ELSE UNION {ChangeOne(q) : q \in ChangeUpTo(p, n - 1)}

\* parameters of new for a candidate offered to stored record r
CandidateParams(r) ==
    {p \in ChangeUpTo(SuccessorParams(r), MaxChanges) : p.version \in Versions}

\* parameters of new for the stored record of the update-protocol runs
StoredParams ==
    [type_tag : {0}, name : {101}, version : {1}, data : {<<>>},
     current_owner_keys : {<<>>, <<NumKeys>>, Prefix(3)},
     previous_owner_keys : {<<>>},
     ledger : {TRUE}]

\* parameters of new for the record of the signature-engine runs
SigParams ==
    [type_tag : {0}, name : {101}, version : {1}, data : {<<>>},
     current_owner_keys : KeyLists,
     previous_owner_keys : {<<>>, <<NumKeys>>, Prefix(3)},
     ledger : {TRUE}]

NewFrom(p, signing_key) ==
    new(p.type_tag, p.name, p.version, p.data, p.current_owner_keys,
        p.previous_owner_keys, signing_key, p.ledger, TRUE).rec

\* update protocol: a stored record, built signed with key 1, and a candidate
\* built with any signing key or none
InitProtocol(faulty, stored) ==
    /\ codecFaulty = faulty
    /\ held = NoData
    /\ pending = <<>>
    /\ \E p \in stored :
          /\ sd = NewFrom(p, 1)
          /\ \E q \in CandidateParams(sd) : \E signing_key \in {0} \cup Signers(q, sd) :
                other = NewFrom(q, signing_key)
    /\ last = Call("new", "other", Ok, 0, <<>>)

Init == InitProtocol(FALSE, StoredParams)

AddSignatureOther ==
    /\ Len(other.previous_owner_signatures) < MaxCandidateSigs
    /\ \E secret_key \in Signers(other, sd) : \E codecOk \in CodecOutcomes :
        LET a == add_signature(other, secret_key, codecOk)
        IN  /\ other' = a.rec
            /\ last' = Call("add_signature", "other", a.res, a.ret, <<>>)
            /\ UNCHANGED <<sd, codecFaulty, held, pending>>

AddSignatureSd ==
    /\ Len(sd.previous_owner_signatures) < MaxSigs
    /\ \E secret_key \in Signers(sd, other) : \E codecOk \in CodecOutcomes :
        LET a == add_signature(sd, secret_key, codecOk)
        IN  /\ sd' = a.rec
            /\ last' = Call("add_signature", "sd", a.res, a.ret, <<>>)
            /\ UNCHANGED <<other, codecFaulty, held, pending>>

ReplaceSignaturesOther ==
    \E new_signatures \in ReplaceInputs(other, sd, MaxCandidateSigs) :
        /\ other' = replace_signatures(other, new_signatures)
        /\ last' = Call("replace_signatures", "other", Ok, 0, <<>>)
        /\ UNCHANGED <<sd, codecFaulty, held, pending>>

ReplaceSignaturesSd ==
    \E new_signatures \in ReplaceInputs(sd, other, MaxSigs) :
        /\ sd' = replace_signatures(sd, new_signatures)
        /\ last' = Call("replace_signatures", "sd", Ok, 0, <<>>)
        /\ UNCHANGED <<other, codecFaulty, held, pending>>

\* the quorum check applied to the stored record
VerifySd ==
    \E owner_keys \in KeyLists : \E codecOk \in CodecOutcomes :
        /\ last' = Call("verify_previous_owner_signatures", "sd",
                        verify_previous_owner_signatures(sd, owner_keys, codecOk),
                        0, owner_keys)
        /\ UNCHANGED <<sd, other, codecFaulty, held, pending>>

\* the stored record is offered the candidate; a panic in the version test
\* ends the call before anything is assigned
ReplaceWithOther ==
    \E codecOk \in CodecOutcomes : \E overflow \in OverflowOutcomes(sd, other) :
        LET r == replace_with_other(sd, other, codecOk)
        IN  /\ sd' = IF overflow = "panic" THEN sd ELSE r.rec
            /\ last' = Call("replace_with_other", "sd",
                            IF overflow = "panic" THEN Panic ELSE r.res, 0, <<>>)
            /\ UNCHANGED <<other, codecFaulty, held, pending>>

Next ==
    \/ AddSignatureOther
    \/ ReplaceSignaturesOther
    \/ ReplaceWithOther

Spec == Init /\ [][Next]_vars

\* the update protocol over a codec that may fail, from a three-owner record
InitCodecFaulty ==
    InitProtocol(TRUE, {p \in StoredParams : p.current_owner_keys = Prefix(3)})

SpecCodecFaulty == InitCodecFaulty /\ [][Next]_vars

\* signature engine: one record under every owner list, built with any
\* signing key or none, beside its plain successor signed by key 1
InitSig ==
    /\ codecFaulty = FALSE
    /\ held = NoData
    /\ pending = <<>>
    /\ \E p \in SigParams : \E signing_key \in {0} \cup Signers(p, p) :
          sd = NewFrom(p, signing_key)
    /\ other = NewFrom(SuccessorParams(sd), 1)
    /\ last = Call("new", "sd", Ok, 0, <<>>)

NextSig ==
    \/ AddSignatureSd
    \/ ReplaceSignaturesSd
    \/ VerifySd

SpecSig == InitSig /\ [][NextSig]_vars

\* parameters of new in the construction runs
NewParams ==
    [type_tag : {0}, name : {101}, version : Versions, data : {<<>>},
     current_owner_keys : {<<>>, <<1>>, <<NumKeys>>, Prefix(3)},
     previous_owner_keys : {<<>>, Prefix(3)},
     ledger : {TRUE}]

\* Some(signing_key) or None, as the list of keys handed to new
SigningKeys(signing_key) == IF signing_key = 0 THEN <<>> ELSE <<signing_key>>

\* construction: records built by new from every version, owner lists and
\* signing key, over a codec that may or may not fail; no candidate is in
\* play, `other` stays an unsigned ownerless record
InitNew ==
    /\ codecFaulty \in BOOLEAN
    /\ held = NoData
    /\ pending = <<>>
    /\ \E p \in NewParams : \E signing_key \in {0} \cup Signers(p, p) :
          /\ sd = NewFrom(p, signing_key)
          /\ last = Call("new", "sd", Ok, 0, SigningKeys(signing_key))
    /\ other = NewFrom([type_tag |-> 0, name |-> 101, version |-> 0, data |-> <<>>,
                         current_owner_keys |-> <<>>, previous_owner_keys |-> <<>>,
                         ledger |-> TRUE], 0)

\* the caller builds the record anew; a failed new leaves it with the old one
NewSd ==
    \E p \in NewParams : \E signing_key \in {0} \cup Signers(p, p) :
    \E codecOk \in CodecOutcomes :
        LET n == new(p.type_tag, p.name, p.version, p.data, p.current_owner_keys,
                     p.previous_owner_keys, signing_key, p.ledger, codecOk)
        IN  /\ sd' = IF n.res = Ok THEN n.rec ELSE sd
            /\ last' = Call("new", "sd", n.res, 0, SigningKeys(signing_key))
            /\ UNCHANGED <<other, codecFaulty, held, pending>>

NextNew ==
    \/ NewSd
    \/ VerifySd

SpecNew == InitNew /\ [][NextNew]_vars

\* owner-key lists of the quorum runs: owners 1 and 2, the same in the other
\* order, with one dropped, with one repeated, and none
QuorumLists == {<<>>, Prefix(2), <<2, 1>>, <<1>>, <<1, 2, 2>>, <<1, 1, 2>>}

\* quorum identity: a record owned by keys 1 and 2, and a next version of it
\* built with any of the lists as its owners and as its previous owners
InitQuorum ==
    /\ codecFaulty = FALSE
    /\ held = NoData
    /\ pending = <<>>
    /\ sd = NewFrom([type_tag |-> 0, name |-> 101, version |-> 1, data |-> <<>>,
                      current_owner_keys |-> Prefix(2),
                      previous_owner_keys |-> <<>>, ledger |-> TRUE], 1)
    /\ \E c \in QuorumLists : \E p \in QuorumLists :
          LET q == [SuccessorParams(sd) EXCEPT !.current_owner_keys = c,
                                               !.previous_owner_keys = p]
          IN  \E signing_key \in {0} \cup Signers(q, sd) :
                other = NewFrom(q, signing_key)
    /\ last = Call("new", "other", Ok, 0, <<>>)

SpecQuorum == InitQuorum /\ [][Next]_vars

\* owner lists of the chain runs
ChainOwners == {Prefix(3), <<NumKeys>>}

\* parameters of new for the next version of record r in the chain runs: the
\* same identity and data, any of the owner lists, any of them or none as the
\* previous owners
ChainParams(r) ==
    {[SuccessorParams(r) EXCEPT !.current_owner_keys = c,
                                !.previous_owner_keys = p] :
        c \in ChainOwners, p \in ChainOwners \cup {<<>>}}

\* the caller builds a candidate for the next version of the stored record
NewOther ==
    /\ sd.version < MaxVersion
    /\ \E q \in ChainParams(sd) : \E signing_key \in {0} \cup Signers(q, sd) :
          other' = NewFrom(q, signing_key)
    /\ last' = Call("new", "other", Ok, 0, <<>>)
    /\ UNCHANGED <<sd, codecFaulty, held, pending>>

\* chains of updates: a record owned by keys 1, 2, 3 and, again and again, a
\* candidate for its next version
InitChain ==
    /\ codecFaulty = FALSE
    /\ held = NoData
    /\ pending = <<>>
    /\ sd = NewFrom([type_tag |-> 0, name |-> 101, version |-> 1, data |-> <<>>,
                      current_owner_keys |-> Prefix(3),
                      previous_owner_keys |-> <<>>, ledger |-> TRUE], 1)
    /\ \E q \in ChainParams(sd) : \E signing_key \in {0} \cup Signers(q, sd) :
          other = NewFrom(q, signing_key)
    /\ last = Call("new", "other", Ok, 0, <<>>)

NextChain ==
    \/ NewOther
    \/ AddSignatureOther
    \/ ReplaceWithOther

SpecChain == InitChain /\ [][NextChain]_vars

\* versions at the end of the u64 range and at its start
EdgeVersions == {U64_MAX - 1, U64_MAX, 0, 1}

\* the end of the version range: a record owned by key 1 whose version is
\* 2^64 - 2 or 2^64 - 1, and a candidate of any of the edge versions, with
\* either data, signed by the owner or unsigned
InitWrap ==
    /\ codecFaulty = FALSE
    /\ held = NoData
    /\ pending = <<>>
    /\ \E version \in {U64_MAX - 1, U64_MAX} :
          sd = NewFrom([type_tag |-> 0, name |-> 101, version |-> version,
                        data |-> <<>>, current_owner_keys |-> <<1>>,
                        previous_owner_keys |-> <<>>, ledger |-> TRUE], 1)
    /\ \E version \in EdgeVersions : \E d \in Datas : \E signing_key \in {0, 1} :
          other = NewFrom([SuccessorParams(sd) EXCEPT !.version = version,
                                                      !.data = d], signing_key)
    /\ last = Call("new", "other", Ok, 0, <<>>)

SpecWrap == InitWrap /\ [][Next]_vars

\* parameters of new for the records whose payloads are compared
PayloadParams ==
    [type_tag : TypeTags, name : Names, version : {1, 2}, data : Datas,
     current_owner_keys : {<<>>, <<1>>, <<NumKeys>>},
     previous_owner_keys : {<<>>, <<NumKeys>>},
     ledger : BOOLEAN]

\* payload runs: one record owned and signed by key NumKeys, beside a second
\* record built from any of the parameters with any signing key or none
InitPayload ==
    /\ codecFaulty = FALSE
    /\ held = NoData
    /\ pending = <<>>
    /\ sd = NewFrom([type_tag |-> 0, name |-> 101, version |-> 1, data |-> <<>>,
                      current_owner_keys |-> <<NumKeys>>,
                      previous_owner_keys |-> <<>>, ledger |-> TRUE], NumKeys)
    /\ \E p \in PayloadParams : \E signing_key \in {0} \cup Signers(p, sd) :
          other = NewFrom(p, signing_key)
    /\ last = Call("new", "other", Ok, 0, <<>>)

NextPayload ==
    \/ AddSignatureOther
    \/ ReplaceSignaturesOther

SpecPayload == InitPayload /\ [][NextPayload]_vars

Callers == 1..NumCallers

\* candidates a caller builds for the shared record r: its own version again
\* or the next one, with either data, signed by the owner
SharedCandidates(r) ==
    {NewFrom([SuccessorParams(r) EXCEPT !.version = version, !.data = d], 1) :
        version \in {r.version, r.version + 1} \cap EdgeVersions, d \in Datas}

\* a shared record: one stored record, owned by key 1, of version 2^64 - 2,
\* and callers that each hold a candidate; `other` is the candidate submitted
\* last
InitShared ==
    /\ codecFaulty = FALSE
    /\ held = NoData
    /\ sd = NewFrom([type_tag |-> 0, name |-> 101, version |-> U64_MAX - 1,
                      data |-> <<>>, current_owner_keys |-> <<1>>,
                      previous_owner_keys |-> <<>>, ledger |-> TRUE], 1)
    /\ pending \in [Callers -> SharedCandidates(sd)]
    /\ other = sd
    /\ last = Call("new", "pending", Ok, 0, <<>>)

\* caller c builds a new candidate from the stored record it sees
Prepare(c) ==
    /\ \E q \in SharedCandidates(sd) : pending' = [pending EXCEPT ![c] = q]
    /\ last' = Call("new", "pending", Ok, 0, <<>>)
    /\ UNCHANGED <<sd, other, codecFaulty, held>>

\* caller c submits its candidate: one replace_with_other call, in one step
Submit(c) ==
    \E overflow \in OverflowOutcomes(sd, pending[c]) :
        LET r == replace_with_other(sd, pending[c], TRUE)
        IN  /\ sd' = IF overflow = "panic" THEN sd ELSE r.rec
            /\ other' = pending[c]
            /\ last' = Call("replace_with_other", "sd",
                            IF overflow = "panic" THEN Panic ELSE r.res, 0, <<>>)
            /\ UNCHANGED <<codecFaulty, held, pending>>

NextShared ==
    \/ \E c \in Callers : Prepare(c)
    \/ \E c \in Callers : Submit(c)

SpecShared == InitShared /\ [][NextShared]_vars

\* type tags of the addressing runs: they differ in different bytes
AddrTags == {0, 1, 256, 65536}

\* values of immutable and plain records
Values == {<<>>, <<7>>, <<7, 7>>}

\* a record kept out of play
Idle ==
    NewFrom([type_tag |-> 0, name |-> 101, version |-> 0, data |-> <<>>,
             current_owner_keys |-> <<>>, previous_owner_keys |-> <<>>,
             ledger |-> TRUE], 0)

\* addressing: a Data value of any variant (a structured record built by new
\* and signed by its owner, an immutable record, a plain record), over a
\* codec that may or may not fail
InitAddr ==
    /\ codecFaulty \in BOOLEAN
    /\ pending = <<>>
    /\ sd = Idle
    /\ other = Idle
    /\ last = Call("new", "held", Ok, 0, <<>>)
    /\ \/ \E type_tag \in AddrTags : \E n \in Names : \E d \in Datas :
            held = Data_Structured(
                     NewFrom([type_tag |-> type_tag, name |-> n, version |-> 0,
                              data |-> d, current_owner_keys |-> <<1>>,
                              previous_owner_keys |-> <<>>, ledger |-> TRUE], 1))
       \/ \E value \in Values : held = Data_Immutable(ImmutableData_new(value))
       \/ \E n \in Names : \E value \in Values :
            held = Data_Plain(PlainData_new(n, value))

DataName ==
    /\ last' = Call("name", "held", Ok, Data_name(held), <<>>)
    /\ UNCHANGED <<sd, other, codecFaulty, held, pending>>

DataIdentifier ==
    /\ last' = Call("identifier", "held", Ok, Data_identifier(held), <<>>)
    /\ UNCHANGED <<sd, other, codecFaulty, held, pending>>

DataPayloadSize ==
    /\ last' = Call("payload_size", "held", Ok, Data_payload_size(held), <<>>)
    /\ UNCHANGED <<sd, other, codecFaulty, held, pending>>

\* name() of the identifier of the held value
IdentifierName ==
    /\ last' = Call("identifier_name", "held", Ok,
                    DataIdentifier_name(Data_identifier(held)), <<>>)
    /\ UNCHANGED <<sd, other, codecFaulty, held, pending>>

\* local_name() of the identifier of the held value
LocalName ==
    \E codecOk \in CodecOutcomes :
        LET l == local_name(Data_identifier(held), codecOk)
        IN  /\ last' = Call("local_name", "held", l.res, l.key, <<>>)
            /\ UNCHANGED <<sd, other, codecFaulty, held, pending>>

NextAddr ==
    \/ DataName
    \/ DataIdentifier
    \/ DataPayloadSize
    \/ IdentifierName
    \/ LocalName

SpecAddr == InitAddr /\ [][NextAddr]_vars

\* a data vector of n bytes
Bytes(n) == [i \in 1..n |-> 0]

\* data of no bytes, of MAX_BYTES bytes and of one byte more
SizedDatas == {Bytes(0), Bytes(MAX_BYTES), Bytes(MAX_BYTES + 1)}

\* data sizes: a single-owner record and its successor, each built by new
\* with data of any of the sizes, the successor signed by the owner or unsigned
InitData ==
    /\ codecFaulty = FALSE
    /\ held = NoData
    /\ pending = <<>>
    /\ \E d \in SizedDatas :
          sd = NewFrom([type_tag |-> 0, name |-> 101, version |-> 1, data |-> d,
                        current_owner_keys |-> <<NumKeys>>,
                        previous_owner_keys |-> <<>>, ledger |-> TRUE], NumKeys)
    /\ \E d \in SizedDatas : \E signing_key \in {0, NumKeys} :
          other = NewFrom([SuccessorParams(sd) EXCEPT !.data = d], signing_key)
    /\ last = Call("new", "other", Ok, 0, <<>>)

SpecData == InitData /\ [][Next]_vars

\* ------------------------------------------------------------ properties
\* notions the properties are stated in

Payload(r) == SerialisableStructuredData(r)

\* signature s is a valid signature over record r's payload by a key of `keys`
ValidBy(s, r, keys) == s.msg = Payload(r) /\ s.signer \in Range(keys)

\* the distinct valid signatures record r carries for the quorum `keys`
DistinctValid(r, keys) ==
    {s \in Range(r.previous_owner_signatures) : ValidBy(s, r, keys)}

\* no two entries of the list are equal
NoRepeats(sigs) == Cardinality(Range(sigs)) = Len(sigs)

\* the keys of `keys` that signed record r with sign_detached (add_signature)
SignedOwners(r, keys) ==
    {k \in Range(keys) :
        sign_detached(Payload(r), k) \in Range(r.previous_owner_signatures)}

\* every entry of r's signature list is what add_signature appends for some key
SignedByAddSignature(r) ==
    \A s \in Range(r.previous_owner_signatures) :
        \E k \in Keys : s = sign_detached(Payload(r), k)

\* the authorizing quorum of record r
QuorumKeys(r) ==
    IF Len(r.previous_owner_keys) > 0 THEN r.previous_owner_keys
    ELSE r.current_owner_keys

\* the four structural conditions on a candidate o offered to record self
StructurallyValid(self, o) ==
    /\ o.type_tag = self.type_tag
    /\ o.name = self.name
    /\ o.version = self.version + 1
    /\ QuorumKeys(o) = self.current_owner_keys

\* size of the authorizing quorum of record r
QuorumSize(r) ==
    IF Len(r.previous_owner_keys) > 0 THEN Len(r.previous_owner_keys)
    ELSE Len(r.current_owner_keys)

\* C1 (as claimed): for every quorum of N >= 1 keys and every signature list
\* made only of distinct valid signatures by quorum keys, the quorum check
\* accepts exactly when the number of signatures is more than N/2; so 2 of 4
\* are rejected.  Fails on the code: required_valid(N) is N/2 rounded up.
C1_StrictMajority ==
    \A keys \in KeyLists :
        ( /\ Len(keys) >= 1
          /\ NoRepeats(sd.previous_owner_signatures)
          /\ DistinctValid(sd, keys) = Range(sd.previous_owner_signatures) )
        => ( verify_previous_owner_signatures(sd, keys, TRUE) = Ok
             <=> 2 * Cardinality(DistinctValid(sd, keys)) > Len(keys) )

\* C2: a replace_with_other that returns an error (Signature, Validation or
\* Serialisation) leaves every field of the stored record as it was.
C2_NoPartialMutation ==
    [][ (last'.op = "replace_with_other" /\ last'.res # Ok)
        => /\ last'.res \in {ErrSignature, ErrValidation, ErrSerialisation}
           /\ sd'.type_tag = sd.type_tag
           /\ sd'.name = sd.name
           /\ sd'.data = sd.data
           /\ sd'.previous_owner_keys = sd.previous_owner_keys
           /\ sd'.version = sd.version
           /\ sd'.current_owner_keys = sd.current_owner_keys
           /\ sd'.previous_owner_signatures = sd.previous_owner_signatures
           /\ sd'.ledger = sd.ledger ]_vars

\* C2 witness: a structurally valid, sufficiently signed candidate with new
\* data was refused because the codec failed
C2_Witness ==
    /\ last.op = "replace_with_other"
    /\ last.res = ErrSerialisation
    /\ other.data # sd.data
    /\ other.version = sd.version + 1
    /\ Len(other.previous_owner_signatures) = 2

\* C3: after a replace_with_other that succeeds, the stored record's
\* type_tag, name, data, previous_owner_keys, version, current_owner_keys and
\* previous_owner_signatures are the candidate's.
C3_AllFieldsFromCandidate ==
    (last.op = "replace_with_other" /\ last.res = Ok)
    => /\ sd.type_tag = other.type_tag
       /\ sd.name = other.name
       /\ sd.data = other.data
       /\ sd.previous_owner_keys = other.previous_owner_keys
       /\ sd.version = other.version
       /\ sd.current_owner_keys = other.current_owner_keys
       /\ sd.previous_owner_signatures = other.previous_owner_signatures

\* C3 witness: an accepted update that brought new data and two signatures
C3_Witness ==
    /\ last.op = "replace_with_other"
    /\ last.res = Ok
    /\ sd.data = <<7>>
    /\ sd.version = 2
    /\ Len(sd.previous_owner_signatures) = 2

\* C4: a candidate whose version is not the stored version + 1 (equal,
\* smaller, or two or more ahead) is rejected by
\* validate_self_against_successor and by replace_with_other, which then
\* leaves the stored record alone, whatever signatures the candidate carries.
C4_VersionStep ==
    [][ (other.version # sd.version + 1)
        => /\ validate_self_against_successor(sd, other, TRUE) # Ok
           /\ (last'.op = "replace_with_other" => (last'.res # Ok /\ sd' = sd)) ]_vars

\* C4 witness: a candidate two versions ahead, same identity, authorized by
\* the stored owners and carrying a full quorum of their signatures, refused
C4_Witness ==
    /\ last.op = "replace_with_other"
    /\ last.res = ErrSignature
    /\ other.version = sd.version + 2
    /\ other.type_tag = sd.type_tag /\ other.name = sd.name
    /\ other.current_owner_keys = Prefix(3)
    /\ sd.current_owner_keys = Prefix(3)
    /\ other.previous_owner_keys = <<>>
    /\ Cardinality(DistinctValid(other, Prefix(3))) = 2
    /\ NoRepeats(other.previous_owner_signatures)

\* C5: a signature list with two equal entries is rejected with Validation
\* by the quorum check under every quorum, however many entries are valid,
\* and so the record is refused as a successor of a stored record it
\* otherwise matches.
C5_DuplicateRejected ==
    (~NoRepeats(sd.previous_owner_signatures))
    => /\ \A keys \in KeyLists :
            verify_previous_owner_signatures(sd, keys, TRUE) = ErrValidation
       /\ LET stored == [sd EXCEPT !.version = sd.version - 1,
                                   !.current_owner_keys = owner_keys_to_match(sd),
                                   !.previous_owner_keys = <<>>,
                                   !.previous_owner_signatures = <<>>]
              r == replace_with_other(stored, sd, TRUE)
          IN  r.res = ErrValidation /\ r.rec = stored

\* C5 witness: three owners, two of them signed validly, one signature is
\* there twice, and the quorum check under those owners said Validation
C5_Witness ==
    /\ last.op = "verify_previous_owner_signatures"
    /\ last.res = ErrValidation
    /\ last.keys = Prefix(3)
    /\ owner_keys_to_match(sd) = Prefix(3)
    /\ Len(sd.previous_owner_signatures) = 3
    /\ Cardinality(DistinctValid(sd, Prefix(3))) = 2
    /\ DistinctValid(sd, Prefix(3)) = Range(sd.previous_owner_signatures)

\* the stored record is owned by keys 1, 2, 3 and the candidate is its
\* transfer to key NumKeys: next version, same identity, previous owners 1, 2, 3
IsTransfer(self, o) ==
    /\ self.current_owner_keys = Prefix(3)
    /\ o.previous_owner_keys = Prefix(3)
    /\ o.current_owner_keys = <<NumKeys>>
    /\ o.version = self.version + 1
    /\ o.type_tag = self.type_tag
    /\ o.name = self.name

C7_AddSignature ==
    [][ (last'.op = "add_signature")
        => LET before == sd.previous_owner_signatures
               after == sd'.previous_owner_signatures
               need == (QuorumSize(sd') \div 2) + 1 - Len(after)
           IN  /\ last'.res = Ok
               /\ Len(after) = Len(before) + 1
               /\ SubSeq(after, 1, Len(before)) = before
               /\ sd' = [sd EXCEPT !.previous_owner_signatures = after]
               /\ last'.ret = IF need > 0 THEN need ELSE 0
               /\ last'.ret >= 0
               /\ (last.op = "add_signature" /\ last.ret = 0) => last'.ret = 0
               /\ QuorumSize(sd') = 3
                  => last'.ret = (IF Len(after) = 1 THEN 1 ELSE 0) ]_vars

\* C7 witness: the third signature under three owners, with 0 returned
C7_Witness ==
    /\ last.op = "add_signature"
    /\ last.ret = 0
    /\ sd.previous_owner_keys = <<>>
    /\ sd.current_owner_keys = Prefix(3)
    /\ Len(sd.previous_owner_signatures) = 3
    /\ SignedByAddSignature(sd)

\* C8 (as claimed): after add_signature calls only, if more than half of the
\* authorizing owners have signed, the last call returned 0 and the quorum
\* check against those owners accepts.  Fails on the code: add_signature does
\* not refuse a key that signs twice, and the quorum check refuses the
\* duplicate.
C8_MajoritySignedIsValid ==
    ( /\ last.op = "add_signature"
      /\ SignedByAddSignature(sd)
      /\ 2 * Cardinality(SignedOwners(sd, owner_keys_to_match(sd)))
            > Len(owner_keys_to_match(sd)) )
    => /\ last.ret = 0
       /\ verify_previous_owner_signatures(sd, owner_keys_to_match(sd), TRUE) = Ok

\* C9 (as claimed): a candidate that replace_with_other accepts carries at
\* least one signature valid over its payload under a key of the stored
\* record's current_owner_keys.  Fails on the code for a stored record
\* without owners: the required number of valid signatures is then 0.
C9_AcceptedUpdateIsSigned ==
    [][ (last'.op = "replace_with_other" /\ last'.res = Ok)
        => DistinctValid(other, sd.current_owner_keys) # {} ]_vars

\* C10: name, type_tag and the ledger flag of a record never change, whatever
\* add_signature, replace_signatures or replace_with_other call is made and
\* whether the candidate is accepted; identifier() stays the same.
C10_IdentityFixed ==
    [][ /\ sd'.name = sd.name
        /\ sd'.type_tag = sd.type_tag
        /\ sd'.ledger = sd.ledger
        /\ identifier(sd') = identifier(sd)
        /\ other'.name = other.name
        /\ other'.type_tag = other.type_tag
        /\ other'.ledger = other.ledger
        /\ identifier(other') = identifier(other) ]_vars

\* C10 witness: a candidate with the other ledger flag was accepted
C10_Witness ==
    /\ last.op = "replace_with_other"
    /\ last.res = Ok
    /\ other.ledger # sd.ledger
    /\ sd.version = other.version

\* C11 (as claimed): in every reachable state, previous_owner_signatures has
\* no two equal entries.  Fails on the code: add_signature appends without a
\* duplicate check and replace_signatures installs any list.
C11_NoDuplicateSignatures ==
    /\ NoRepeats(sd.previous_owner_signatures)
    /\ NoRepeats(other.previous_owner_signatures)

\* C12 (as claimed): in every reachable state the data of a record is at
\* most MAX_BYTES long.  Fails on the code: MAX_BYTES is never compared with
\* anything, in new or in replace_with_other.
C12_DataBounded ==
    /\ Len(sd.data) <= MAX_BYTES
    /\ Len(other.data) <= MAX_BYTES

\* C13: new succeeds for every version, owner lists and signing key unless
\* the codec fails (which it is asked to do only when a signing key is
\* given); the record it returns has no signature when no key was given and
\* exactly the key's signature over the record's payload when one was; a
\* single-owner record built unsigned or signed by a key that is not the
\* owner is refused by the quorum check against its owner.
C13_NewUnconstrained ==
    (last.op = "new" /\ last.on = "sd")
    => /\ last.res \in {Ok, ErrSerialisation}
       /\ (~codecFaulty \/ last.keys = <<>>) => last.res = Ok
       /\ last.res = Ok
          => /\ last.keys = <<>> => sd.previous_owner_signatures = <<>>
             /\ last.keys # <<>>
                => sd.previous_owner_signatures
                     = <<sign_detached(Payload(sd), last.keys[1])>>
             /\ ( /\ Len(sd.current_owner_keys) = 1
                  /\ \A i \in 1..Len(last.keys) :
                        last.keys[i] \notin Range(sd.current_owner_keys) )
                => verify_previous_owner_signatures(sd, sd.current_owner_keys, TRUE)
                     = ErrValidation

\* C13 witness: new built a version-0 record owned by key 1 alone, with
\* three previous owners, signed by key NumKeys, which owns nothing
C13_Witness ==
    /\ last.op = "new"
    /\ last.res = Ok
    /\ last.keys = <<NumKeys>>
    /\ sd.version = 0
    /\ sd.current_owner_keys = <<1>>
    /\ sd.previous_owner_keys = Prefix(3)
    /\ Len(sd.previous_owner_signatures) = 1

\* C14 (as claimed): a candidate that matches the stored record structurally
\* and carries signatures, none of which verifies against its own payload
\* under a key of its authorizing quorum (signatures by other keys, or by
\* owners over another record), is rejected with Validation and changes
\* nothing.  Fails on the code when the quorum is empty: the number of valid
\* signatures asked for is then 0.
C14_OnlyQuorumSignaturesCount ==
    [][ ( /\ last'.op = "replace_with_other"
          /\ ~structural_mismatch(sd, other)
          /\ Len(other.previous_owner_signatures) >= 1
          /\ DistinctValid(other, owner_keys_to_match(other)) = {} )
        => (last'.res = ErrValidation /\ sd' = sd) ]_vars

\* C15: local_name of an Immutable or Plain identifier succeeds and returns
\* the identifier's name; local_name of Structured(name, tag) returns the
\* hash of the name followed by the encoding of the tag, the same for the
\* same identifier, and another key than that of any identifier with the same
\* name and another tag.
C15_LocalName ==
    (last.op = "local_name")
    => LET id == Data_identifier(held)
       IN  /\ id[1] \in {"Immutable", "Plain"}
              => (last.res = Ok /\ last.ret = id[2])
           /\ (id[1] = "Structured" /\ last.res = Ok)
              => /\ last.ret = sha3_256(<<id[2]>> \o serialise_u64(id[3]))
                 /\ last.ret = local_name(<<"Structured", id[2], id[3]>>, TRUE).key
                 /\ \A tag \in AddrTags \ {id[3]} :
                       local_name(<<"Structured", id[2], tag>>, TRUE).key # last.ret

\* C15 witness: the local name of a structured identifier with tag 256
C15_Witness ==
    /\ last.op = "local_name"
    /\ last.res = Ok
    /\ held.kind = "Structured"
    /\ held.rec.type_tag = 256

\* C16: name(), identifier() and payload_size() of a Data value return what
\* the wrapped record returns: for a structured record its name,
\* Structured(name, type_tag) and the length of its data; and name() of the
\* value's identifier is the name the identifier was built from.
C16_Dispatch ==
    /\ held.kind = "Structured"
       => /\ last.op = "name" => last.ret = held.rec.name
          /\ last.op = "identifier"
             => last.ret = <<"Structured", held.rec.name, held.rec.type_tag>>
          /\ last.op = "payload_size" => last.ret = Len(held.rec.data)
    /\ held.kind = "Immutable"
       => /\ last.op = "name" => last.ret = ImmutableData_name(held.rec)
          /\ last.op = "identifier" => last.ret = ImmutableData_identifier(held.rec)
          /\ last.op = "payload_size"
             => last.ret = ImmutableData_payload_size(held.rec)
    /\ held.kind = "Plain"
       => /\ last.op = "name" => last.ret = PlainData_name(held.rec)
          /\ last.op = "identifier" => last.ret = PlainData_identifier(held.rec)
          /\ last.op = "payload_size" => last.ret = PlainData_payload_size(held.rec)
    /\ last.op = "identifier_name" => last.ret = held.rec.name

\* C16 witness: the payload size of a signed structured record with one byte
\* of data
C16_Witness ==
    /\ last.op = "payload_size"
    /\ held.kind = "Structured"
    /\ held.rec.data = <<7>>
    /\ Len(held.rec.previous_owner_signatures) = 1
    /\ last.ret = 1

\* record r carrying the signatures add_signature makes for the first n keys
\* of the list `keys`
SignedByFirst(r, keys, n) ==
    replace_signatures(r, [i \in 1..n |-> sign_detached(Payload(r), keys[i])])

C18_ErrorClassification ==
    [][ (last'.op = "replace_with_other")
        => /\ last'.res \in {Ok, ErrSignature, ErrValidation}
           /\ last'.res = validate_self_against_successor(sd, other, TRUE)
           /\ ~StructurallyValid(sd, other) => last'.res = ErrSignature
           /\ last'.res = ErrSignature => ~StructurallyValid(sd, other)
           /\ last'.res = ErrValidation
              => /\ StructurallyValid(sd, other)
                 /\ verify_previous_owner_signatures(other, QuorumKeys(other), TRUE)
                      = ErrValidation ]_vars

\* C18 witness: a candidate of the wrong type tag that carries the same
\* signature twice was refused with Signature
C18_Witness ==
    /\ last.op = "replace_with_other"
    /\ last.res = ErrSignature
    /\ other.type_tag # sd.type_tag
    /\ other.version = sd.version + 1
    /\ Len(other.previous_owner_signatures) = 2
    /\ ~NoRepeats(other.previous_owner_signatures)

\* C19: a candidate is accepted only if its authorizing quorum is the stored
\* current_owner_keys, key by key in the same order; a quorum that is another
\* list (the same keys in another order, with a key repeated or with a key
\* dropped) gets Signature, whoever signed, and the stored record stays.
C19_QuorumOrdered ==
    [][ (last'.op = "replace_with_other")
        => /\ last'.res = Ok => QuorumKeys(other) = sd.current_owner_keys
           /\ QuorumKeys(other) # sd.current_owner_keys
              => (last'.res = ErrSignature /\ sd' = sd) ]_vars

\* C19 witness: the candidate names owners 2, 1 where the stored record has
\* 1, 2; both owners signed it validly; it was refused with Signature
C19_Witness ==
    /\ last.op = "replace_with_other"
    /\ last.res = ErrSignature
    /\ sd.current_owner_keys = Prefix(2)
    /\ other.previous_owner_keys = <<>>
    /\ other.current_owner_keys = <<2, 1>>
    /\ other.version = sd.version + 1
    /\ SignedOwners(other, Prefix(2)) = {1, 2}
    /\ Len(other.previous_owner_signatures) = 2

\* C20: an accepted candidate with no previous_owner_keys has the stored
\* current_owner_keys as its own; current_owner_keys changes across an
\* accepted update only if the candidate's previous_owner_keys is not empty
\* and equals the stored current_owner_keys.
C20_OwnersChangeOnlyByTransfer ==
    [][ (last'.op = "replace_with_other" /\ last'.res = Ok)
        => /\ other.previous_owner_keys = <<>>
              => other.current_owner_keys = sd.current_owner_keys
           /\ sd'.current_owner_keys # sd.current_owner_keys
              => /\ other.previous_owner_keys # <<>>
                 /\ other.previous_owner_keys = sd.current_owner_keys ]_vars

\* C20 witness: an accepted update changed the owners from 1, 2, 3 to
\* NumKeys
C20_Witness ==
    /\ last.op = "replace_with_other"
    /\ last.res = Ok
    /\ sd.version = 2
    /\ sd.previous_owner_keys = Prefix(3)
    /\ sd.current_owner_keys = <<NumKeys>>

\* C21: once the stored record is an accepted transfer from owners O to
\* other owners O2, a candidate for the next version whose authorizing quorum
\* is O2 and which more than half of O2 signed (with add_signature, each key
\* once) is accepted, and a candidate whose authorizing quorum is O gets
\* Signature, whoever signed it, and changes nothing.
C21_AuthorityFollowsOwners ==
    [][ ( /\ last'.op = "replace_with_other"
          /\ sd.previous_owner_keys # <<>>
          /\ sd.previous_owner_keys # sd.current_owner_keys
          /\ other.type_tag = sd.type_tag
          /\ other.name = sd.name
          /\ other.version = sd.version + 1 )
        => /\ ( /\ QuorumKeys(other) = sd.current_owner_keys
                /\ SignedByAddSignature(other)
                /\ NoRepeats(other.previous_owner_signatures)
                /\ 2 * Cardinality(SignedOwners(other, sd.current_owner_keys))
                      > Len(sd.current_owner_keys) )
              => (last'.res = Ok /\ sd'.version = other.version)
           /\ QuorumKeys(other) = sd.previous_owner_keys
              => (last'.res = ErrSignature /\ sd' = sd) ]_vars

\* C21 witness: after the transfer from 1, 2, 3 to NumKeys, the next version,
\* which hands the record on, was accepted on the signature of NumKeys
C21_Witness ==
    /\ last.op = "replace_with_other"
    /\ last.res = Ok
    /\ sd.version = 3
    /\ sd.previous_owner_keys = <<NumKeys>>
    /\ sd.current_owner_keys = Prefix(3)
    /\ SignedOwners(sd, <<NumKeys>>) = {NumKeys}

\* C27 (as claimed): an accepted update never leaves the stored record with
\* a lower version than it had, whatever the version was, 2^64 - 1 included.
\* Fails on the code: where overflow is not checked, self.version + 1 wraps
\* to 0 and a candidate of version 0 is accepted.
C27_VersionNeverDecreases ==
    [][ (last'.op = "replace_with_other" /\ last'.res = Ok)
        => ~u64_lt(sd'.version, sd.version) ]_vars

\* type_tag, name, data, version and both owner-key lists of r and r2 agree
SameSignedFields(r, r2) ==
    /\ r2.type_tag = r.type_tag
    /\ r2.name = r.name
    /\ r2.data = r.data
    /\ r2.version = r.version
    /\ r2.current_owner_keys = r.current_owner_keys
    /\ r2.previous_owner_keys = r.previous_owner_keys

\* C22 (as claimed): the version of a record changes only in a
\* replace_with_other call that succeeds, which makes it the u64 one larger;
\* add_signature, replace_signatures and a replace_with_other that fails
\* leave version, type_tag, name, data and both owner-key lists as they were.
\* Fails on the code at version 2^64 - 1, where an accepted update makes the
\* version 0 (C27).
C22_VersionChangesOnlyByUpdate ==
    [][ /\ sd'.version # sd.version
           => /\ last'.op = "replace_with_other"
              /\ last'.res = Ok
              /\ sd'.version = sd.version + 1
              /\ u64_lt(sd.version, sd'.version)
        /\ other'.version = other.version
        /\ ( \/ last'.op \in {"add_signature", "replace_signatures"}
             \/ (last'.op = "replace_with_other" /\ last'.res # Ok) )
           => (SameSignedFields(sd, sd') /\ SameSignedFields(other, other')) ]_vars

\* C26 (as claimed): with every replace_with_other one atomic step, an
\* accepted candidate has a version above the stored one, so that no version
\* number is accepted twice; a candidate submitted with a version at or below
\* the stored one (the accepted candidate again, or a rival of the same or an
\* older version) gets Signature and changes nothing; and the stored record
\* is never a valid successor of itself.  Fails on the code at version
\* 2^64 - 1 (C27): the submission panics or accepts a candidate of version 0.
C26_OneAcceptedPerVersion ==
    [][ (last'.op = "replace_with_other")
        => /\ last'.res = Ok => u64_lt(sd.version, sd'.version)
           /\ ~u64_lt(sd.version, other'.version)
              => (last'.res = ErrSignature /\ sd' = sd)
           /\ validate_self_against_successor(sd, sd, TRUE) = ErrSignature ]_vars

\* C23: replace_signatures validates nothing: for every list handed to it (the
\* empty list, a list with a repeated entry, signatures made over another
\* payload) the record's previous_owner_signatures afterwards is exactly that
\* list, the earlier signatures are gone, the call succeeds and no other field
\* of the record, and nothing of the other record, changes.
C23_ReplaceSignaturesOverwrites ==
    [][ /\ \A new_signatures \in ReplaceInputs(sd, other, MaxSigs) :
              replace_signatures(sd, new_signatures)
                  = [sd EXCEPT !.previous_owner_signatures = new_signatures]
        /\ (last'.op = "replace_signatures" /\ last'.on = "sd")
              => /\ sd'.previous_owner_signatures \in ReplaceInputs(sd, other, MaxSigs)
                 /\ SameSignedFields(sd, sd')
                 /\ sd'.ledger = sd.ledger
                 /\ other' = other
                 /\ last'.res = Ok ]_vars

\* replace_signatures has stored a list with a repeated entry that the quorum
\* check would refuse
C23_Witness ==
    /\ last.op = "replace_signatures"
    /\ last.on = "sd"
    /\ has_duplicate(sd.previous_owner_signatures)
    /\ Len(sd.previous_owner_signatures) >= 2

\* C24: the quorum check counts signature values, not signers: when the
\* record's signatures are pairwise different values that are all valid under
\* one and the same key of the quorum, each of them counts, and the check
\* accepts exactly when their number reaches the threshold for the quorum's
\* size, although a single owner signed.
C24_SameKeySignaturesCount ==
    LET sigs == sd.previous_owner_signatures
    IN  (/\ last.op = "verify_previous_owner_signatures"
         /\ NoRepeats(sigs)
         /\ \E k \in Range(last.keys) :
               \A i \in 1..Len(sigs) : verify_detached(sigs[i], Payload(sd), k))
        => /\ count_valid(sigs, Payload(sd), last.keys) = Len(sigs)
           /\ last.res = Ok <=> Len(sigs) >= required_valid(last.keys)

\* the quorum check accepted a three-owner quorum on two signatures that one
\* owner made
C24_Witness ==
    LET sigs == sd.previous_owner_signatures
    IN  /\ last.op = "verify_previous_owner_signatures"
        /\ last.res = Ok
        /\ Len(last.keys) >= 3
        /\ Len(sigs) >= 2
        /\ NoRepeats(sigs)
        /\ \E k \in Range(last.keys) : \A i \in 1..Len(sigs) : sigs[i].signer = k

\* C25: the signing payload is a function of exactly type_tag, name, data,
\* previous_owner_keys, current_owner_keys and version: two records have the
\* same payload exactly when they agree on these six fields, whatever their
\* signatures and ledger flag; add_signature and replace_signatures leave the
\* payload alone, so that a signature that verified before such a call
\* verifies after it.
C25_PayloadOfSixFields ==
    [][ /\ (Payload(sd) = Payload(other)) <=> SameSignedFields(sd, other)
        /\ last'.op \in {"add_signature", "replace_signatures"}
              => /\ data_to_sign(other', TRUE) = data_to_sign(other, TRUE)
                 /\ \A i \in 1..Len(other.previous_owner_signatures) : \A k \in Keys :
                       verify_detached(other.previous_owner_signatures[i], Payload(other), k)
                       => verify_detached(other.previous_owner_signatures[i], Payload(other'), k) ]_vars

\* the candidate agrees with the stored record on the six fields and not on
\* the signatures, and after a second add_signature all its signatures verify
C25_Witness ==
    LET sigs == other.previous_owner_signatures
    IN  /\ last.op = "add_signature"
        /\ last.res = Ok
        /\ Len(sigs) >= 2
        /\ \A i \in 1..Len(sigs) : verify_detached(sigs[i], Payload(other), sigs[i].signer)
        /\ SameSignedFields(sd, other)
        /\ sigs # sd.previous_owner_signatures
        /\ Payload(sd) = Payload(other)

\* C28 (as claimed): when every signature of the record was appended by
\* add_signature, no two by the same key and each by a key of the authorizing
\* quorum, a quorum check against that quorum right after an add_signature
\* accepts exactly when that add_signature returned 0.  Fails on the code for
\* quorums of even size: at N/2 signatures add_signature still asks for one
\* more while the check accepts (C1).
C28_RemainingAgreesWithQuorumCheck ==
    [][ (/\ last.op = "add_signature"
         /\ last.res = Ok
         /\ last'.op = "verify_previous_owner_signatures"
         /\ last'.keys = owner_keys_to_match(sd)
         /\ SignedByAddSignature(sd)
         /\ NoRepeats(sd.previous_owner_signatures)
         /\ \A s \in Range(sd.previous_owner_signatures) : s.signer \in Range(last'.keys))
        => (last'.res = Ok <=> last.ret = 0) ]_vars

====
